---- MODULE Spec2Model ----
(***************************************************************************)
(* A model of src/netatmo_ws.py: the class NetatmoWeatherStation, its five *)
(* validated properties (getter / setter / deleter), its keyword           *)
(* initializer and query_api.                                              *)
(*                                                                         *)
(* Python values are records [t |-> <type name>, v |-> <payload>]; a str   *)
(* is the sequence of its characters, a float n.0 is written PyFloat(n).   *)
(* An instance attribute that does not exist (never assigned, or removed   *)
(* by del) is Absent.                                                      *)
(***************************************************************************)
EXTENDS Integers, Sequences, FiniteSets, TLC

VARIABLES
    self,   \* the instance's attributes (its __dict__)
    pc,     \* "idle": the caller may call; "in_request": query_api is blocked
            \* in the HTTP call; "no_object": __init__ raised, no instance
    last    \* the last call made, its arguments and what it gave back

vars == <<self, pc, last>>

----------------------------------------------------------------------------
(* Python values *)

PyNone == [t |-> "NoneType", v |-> <<>>]
PyStr(s) == [t |-> "str", v |-> s]
PyFloat(n) == [t |-> "float", v |-> n]
PyInt(n) == [t |-> "int", v |-> n]
PyBool(b) == [t |-> "bool", v |-> b]
PyList(items) == [t |-> "list", v |-> items]
PyDict(pairs) == [t |-> "dict", v |-> pairs]
Absent == [t |-> "<absent>", v |-> <<>>]

\* bool(value): what `not value` and `if value` test
Truthy(value) ==
    CASE value.t = "NoneType" -> FALSE
      [] value.t = "bool" -> value.v
      [] value.t \in {"int", "float"} -> value.v # 0
      [] value.t \in {"str", "list", "dict"} -> Len(value.v) > 0
      [] OTHER -> TRUE

\* What a call gives back: a returned value or a raised exception. `param`
\* is the parameter or attribute the exception's message names, `status` the
\* HTTP status its message embeds (0: none).
Return(value) ==
    [kind |-> "return", exc |-> "", param |-> "", status |-> 0, value |-> value]
Raise(exc, param) ==
    [kind |-> "raise", exc |-> exc, param |-> param, status |-> 0, value |-> PyNone]
RaiseStatus(exc, status) ==
    [kind |-> "raise", exc |-> exc, param |-> "", status |-> status, value |-> PyNone]

\* self.<name> for a plain instance attribute
GetAttr(obj, name) ==
    IF obj[name] = Absent THEN Raise("AttributeError", name) ELSE Return(obj[name])

\* del self.<name>
DelAttr(obj, name) ==
    IF obj[name] = Absent
    THEN [self |-> obj, out |-> Raise("AttributeError", name)]
    ELSE [self |-> [obj EXCEPT ![name] = Absent], out |-> Return(PyNone)]

----------------------------------------------------------------------------
(* urllib.parse.urlparse, as far as scheme and netloc go *)

Letters == {"a", "i"}
DigitChars == <<"0", "1", "2", "3", "4", "5", "6", "7", "8", "9">>
Digits == {DigitChars[k] : k \in 1..10}
DigitVal(c) == (CHOOSE k \in 1..10 : DigitChars[k] = c) - 1
SchemeChars == Letters \cup Digits \cup {"+", "-", "."}

\* str.find(c): 1-based index of the first c in s, 0 when there is none
Find(s, c) ==
    IF \E k \in 1..Len(s) : s[k] = c
    THEN CHOOSE k \in 1..Len(s) : s[k] = c /\ \A j \in 1..(k - 1) : s[j] # c
    ELSE 0

\* str.rfind(c)
RFind(s, c) ==
    IF \E k \in 1..Len(s) : s[k] = c
    THEN CHOOSE k \in 1..Len(s) : s[k] = c /\ \A j \in (k + 1)..Len(s) : s[j] # c
    ELSE 0

Contains(s, c) == Find(s, c) # 0

\* _splitnetloc(url, 2): the netloc ends before the first of / ? #
NetlocEnd(url) ==
    LET stops == {k \in 3..Len(url) : url[k] \in {"/", "?", "#"}}
    IN  IF stops = {} THEN Len(url)
        ELSE (CHOOSE k \in stops : \A j \in stops : k <= j) - 1

\* urlparse(url): [raised, scheme, netloc]. The inputs hold no "]", so the
\* bracketed-host check that follows the bracket test is never reached.
urlparse(url) ==
    LET HasScheme(i) == /\ i > 1
                        /\ url[1] \in Letters
                        /\ \A k \in 1..(i - 1) : url[k] \in SchemeChars
        Netloc(rest) ==
            IF Len(rest) >= 2 /\ rest[1] = "/" /\ rest[2] = "/"
            THEN SubSeq(rest, 3, NetlocEnd(rest))
            ELSE <<>>
        Result(scheme, netloc) ==
            [raised |-> Contains(netloc, "[") # Contains(netloc, "]"),
             scheme |-> scheme, netloc |-> netloc]
        Split(i) ==
            IF HasScheme(i)
            THEN Result(SubSeq(url, 1, i - 1), Netloc(SubSeq(url, i + 1, Len(url))))
            ELSE Result(<<>>, Netloc(url))
    IN  Split(Find(url, ":"))

\* ParseResult.hostname: the netloc without userinfo and port, None when empty
Hostname(netloc) ==
    LET Before(s, k) == SubSeq(s, 1, IF k = 0 THEN Len(s) ELSE k - 1)
        Bracketed(s) == Before(s, Find(s, "]"))
        Host(hostinfo, open) ==
            IF open # 0
            THEN Bracketed(SubSeq(hostinfo, open + 1, Len(hostinfo)))
            ELSE Before(hostinfo, Find(hostinfo, ":"))
        HostOf(hostinfo) == Host(hostinfo, Find(hostinfo, "["))
    IN  HostOf(SubSeq(netloc, RFind(netloc, "@") + 1, Len(netloc)))

----------------------------------------------------------------------------
(* json.loads, for texts without whitespace, escapes, signs or fractions *)

JsonFail == [ok |-> FALSE, val |-> PyNone, next |-> 0]
JsonOk(val, next) == [ok |-> TRUE, val |-> val, next |-> next]

StartsWith(s, i, word) ==
    /\ i + Len(word) - 1 <= Len(s)
    /\ SubSeq(s, i, i + Len(word) - 1) = word

\* the index after the run of digits that starts at i
RECURSIVE DigitsEnd(_, _)
DigitsEnd(s, i) ==
    IF i <= Len(s) /\ s[i] \in Digits THEN DigitsEnd(s, i + 1) ELSE i

RECURSIVE DecimalValue(_, _, _)
DecimalValue(s, i, j) ==
    IF j < i THEN 0 ELSE 10 * DecimalValue(s, i, j - 1) + DigitVal(s[j])

\* a string literal opening at i: the characters up to the next quote
JsonString(s, i) ==
    LET Closed(tail, close) ==
            IF close = 0
            THEN JsonFail
            ELSE JsonOk(PyStr(SubSeq(tail, 1, close - 1)), i + close + 1)
        Literal(tail) == Closed(tail, Find(tail, "\""))
    IN  IF i > Len(s) \/ s[i] # "\""
        THEN JsonFail
        ELSE Literal(SubSeq(s, i + 1, Len(s)))

\* a number opening at i: 0, or a digit 1-9 and the digits after it
JsonNumber(s, i) ==
    IF s[i] = "0"
    THEN JsonOk(PyInt(0), i + 1)
    ELSE LET Number(e) == JsonOk(PyInt(DecimalValue(s, i, e - 1)), e)
         IN  Number(DigitsEnd(s, i))

RECURSIVE JsonValue(_, _), JsonElements(_, _, _), JsonMembers(_, _, _)

\* the value that starts at s[i]: [ok, val, next], next the index after it
JsonValue(s, i) ==
    IF i > Len(s) THEN JsonFail
    ELSE IF s[i] = "{" THEN
        IF i + 1 <= Len(s) /\ s[i + 1] = "}"
        THEN JsonOk(PyDict(<<>>), i + 2)
        ELSE JsonMembers(s, i + 1, <<>>)
    ELSE IF s[i] = "[" THEN
        IF i + 1 <= Len(s) /\ s[i + 1] = "]"
        THEN JsonOk(PyList(<<>>), i + 2)
        ELSE JsonElements(s, i + 1, <<>>)
    ELSE IF s[i] = "\"" THEN JsonString(s, i)
    ELSE IF s[i] \in Digits THEN JsonNumber(s, i)
    ELSE IF StartsWith(s, i, <<"n", "u", "l", "l">>) THEN JsonOk(PyNone, i + 4)
    ELSE IF StartsWith(s, i, <<"t", "r", "u", "e">>) THEN JsonOk(PyBool(TRUE), i + 4)
    ELSE IF StartsWith(s, i, <<"f", "a", "l", "s", "e">>) THEN JsonOk(PyBool(FALSE), i + 5)
    ELSE JsonFail

\* the elements of an array from s[i] on, after those in acc
JsonElements(s, i, acc) ==
    LET After(e) ==
            IF ~e.ok \/ e.next > Len(s) THEN JsonFail
            ELSE IF s[e.next] = "]" THEN JsonOk(PyList(Append(acc, e.val)), e.next + 1)
            ELSE IF s[e.next] = "," THEN JsonElements(s, e.next + 1, Append(acc, e.val))
            ELSE JsonFail
    IN  After(JsonValue(s, i))

\* the "key":value members of an object from s[i] on, after those in acc
JsonMembers(s, i, acc) ==
    LET After(e, pairs) ==
            IF ~e.ok \/ e.next > Len(s) THEN JsonFail
            ELSE IF s[e.next] = "}" THEN JsonOk(PyDict(pairs), e.next + 1)
            ELSE IF s[e.next] = "," THEN JsonMembers(s, e.next + 1, pairs)
            ELSE JsonFail
        Member(k, e) == After(e, Append(acc, <<k.val, e.val>>))
        Keyed(k) ==
            IF k.ok /\ k.next <= Len(s) /\ s[k.next] = ":"
            THEN Member(k, JsonValue(s, k.next + 1))
            ELSE JsonFail
    IN  Keyed(JsonString(s, i))

\* json.loads(text): ok = FALSE stands for the JSONDecodeError
JsonLoads(text) ==
    LET Whole(r) ==
            IF r.ok /\ r.next = Len(text) + 1
            THEN [ok |-> TRUE, val |-> r.val]
            ELSE [ok |-> FALSE, val |-> PyNone]
    IN  Whole(JsonValue(text, 1))

----------------------------------------------------------------------------
(* The properties *)

api_url_getter(obj) == GetAttr(obj, "_api_url")

\* api_url_setter without the test of parsed_url.netloc
api_url_setter_NoNetlocCheck(obj, value) ==
    IF ~Truthy(value)
    THEN [self |-> obj, out |-> Raise("ValueError", "api_url")]
    ELSE IF value.t # "str"
    THEN [self |-> obj, out |-> Raise("TypeError", "api_url")]
    ELSE LET Validate(parsed_url) ==
                 IF parsed_url.raised \/ parsed_url.scheme = <<>>
                 THEN [self |-> obj, out |-> Raise("ValueError", "api_url")]
                 ELSE [self |-> [obj EXCEPT !._api_url = value], out |-> Return(PyNone)]
         IN  Validate(urlparse(value.v))

api_url_setter(obj, value) ==
    IF ~Truthy(value)
    THEN [self |-> obj, out |-> Raise("ValueError", "api_url")]
    ELSE IF value.t # "str"
    THEN [self |-> obj, out |-> Raise("TypeError", "api_url")]
    ELSE LET Validate(parsed_url) ==
                 IF parsed_url.raised \/ parsed_url.scheme = <<>> \/ parsed_url.netloc = <<>>
                 THEN [self |-> obj, out |-> Raise("ValueError", "api_url")]
                 ELSE [self |-> [obj EXCEPT !._api_url = value], out |-> Return(PyNone)]
         IN  Validate(urlparse(value.v))

api_url_deleter(obj) == DelAttr(obj, "_api_url")

api_timeout_getter(obj) == GetAttr(obj, "_api_timeout")

api_timeout_setter(obj, value) ==
    IF ~Truthy(value)
    THEN [self |-> obj, out |-> Raise("ValueError", "api_timeout")]
    ELSE IF value.t # "float"
    THEN [self |-> obj, out |-> Raise("TypeError", "api_timeout")]
    ELSE [self |-> [obj EXCEPT !._api_timeout = value], out |-> Return(PyNone)]

api_timeout_deleter(obj) == DelAttr(obj, "_api_timeout")

verify_ssl_getter(obj) == GetAttr(obj, "_verify_ssl")

verify_ssl_setter(obj, value) ==
    IF value = PyNone
    THEN [self |-> obj, out |-> Raise("ValueError", "verify_ssl")]
    ELSE IF value.t # "bool"
    THEN [self |-> obj, out |-> Raise("TypeError", "verify_ssl")]
    ELSE [self |-> [obj EXCEPT !._verify_ssl = value], out |-> Return(PyNone)]

verify_ssl_deleter(obj) == DelAttr(obj, "_verify_ssl")

enable_debug_getter(obj) == GetAttr(obj, "_enable_http_debug")

enable_debug_setter(obj, value) ==
    IF ~Truthy(value)
    THEN [self |-> obj, out |-> Raise("ValueError", "enable_debug")]
    ELSE IF value.t # "str"
    THEN [self |-> obj, out |-> Raise("TypeError", "enable_debug")]
    ELSE [self |-> [obj EXCEPT !._enable_http_debug = value], out |-> Return(PyNone)]

enable_debug_deleter(obj) == DelAttr(obj, "_enable_http_debug")

enable_http_trace_getter(obj) == GetAttr(obj, "_enable_http_trace")

enable_http_trace_setter(obj, value) ==
    IF value = PyNone
    THEN [self |-> [obj EXCEPT !._enable_http_trace = PyBool(FALSE)], out |-> Return(PyNone)]
    ELSE IF value.t # "bool"
    THEN [self |-> obj, out |-> Raise("TypeError", "enable_http_trace")]
    ELSE [self |-> [obj EXCEPT !._enable_http_trace = value], out |-> Return(PyNone)]

enable_http_trace_deleter(obj) == DelAttr(obj, "_enable_http_trace")

Fields == {"api_url", "api_timeout", "verify_ssl", "enable_debug", "enable_http_trace"}

\* obj.<field>
Getter(obj, field) ==
    CASE field = "api_url" -> api_url_getter(obj)
      [] field = "api_timeout" -> api_timeout_getter(obj)
      [] field = "verify_ssl" -> verify_ssl_getter(obj)
      [] field = "enable_debug" -> enable_debug_getter(obj)
      [] field = "enable_http_trace" -> enable_http_trace_getter(obj)

\* obj.<field> = value
Setter(obj, field, value) ==
    CASE field = "api_url" -> api_url_setter(obj, value)
      [] field = "api_timeout" -> api_timeout_setter(obj, value)
      [] field = "verify_ssl" -> verify_ssl_setter(obj, value)
      [] field = "enable_debug" -> enable_debug_setter(obj, value)
      [] field = "enable_http_trace" -> enable_http_trace_setter(obj, value)

\* del obj.<field>
Deleter(obj, field) ==
    CASE field = "api_url" -> api_url_deleter(obj)
      [] field = "api_timeout" -> api_timeout_deleter(obj)
      [] field = "verify_ssl" -> verify_ssl_deleter(obj)
      [] field = "enable_debug" -> enable_debug_deleter(obj)
      [] field = "enable_http_trace" -> enable_http_trace_deleter(obj)

----------------------------------------------------------------------------
(* __init__(kwargs) *)

KwKeys == {"api_url", "api_timeout", "verify_ssl", "enable_http_trace",
           "enable_debug", "_enable_http_debug"}

\* kwargs.get(key): None when the keyword was not passed (kwargs[key] = Absent)
KwGet(kwargs, key) == IF kwargs[key] = Absent THEN PyNone ELSE kwargs[key]

\* the attribute assignments that open __init__
Blank ==
    [_api_url |-> PyNone, _api_timeout |-> PyNone, _verify_ssl |-> PyNone,
     _enable_http_trace |-> PyNone, _enable_http_debug |-> PyNone,
     api_username |-> Absent, api_password |-> Absent]

\* self._enable_http_debug = value
StoreDebugAttr(obj, value) ==
    [self |-> [obj EXCEPT !._enable_http_debug = value], out |-> Return(PyNone)]

\* the assignment __init__ makes for a keyword: api_timeout goes to the
\* api_url property, _enable_http_debug straight to the attribute
InitStore(obj, key, value) ==
    CASE key = "api_url" -> api_url_setter(obj, value)
      [] key = "api_timeout" -> api_url_setter(obj, value)
      [] key = "verify_ssl" -> verify_ssl_setter(obj, value)
      [] key = "enable_http_trace" -> enable_http_trace_setter(obj, value)
      [] key = "_enable_http_debug" -> StoreDebugAttr(obj, value)

\* `if kwargs.get(key): <assignment>`, skipped once an earlier one raised
InitStep(res, kwargs, key) ==
    IF res.out.kind = "raise" \/ ~Truthy(KwGet(kwargs, key))
    THEN res
    ELSE InitStore(res.self, key, KwGet(kwargs, key))

init(kwargs) ==
    LET s0 == [self |-> Blank, out |-> Return(PyNone)]
        s1 == InitStep(s0, kwargs, "api_url")
        s2 == InitStep(s1, kwargs, "api_timeout")
        s3 == InitStep(s2, kwargs, "verify_ssl")
        s4 == InitStep(s3, kwargs, "enable_http_trace")
        s5 == InitStep(s4, kwargs, "_enable_http_debug")
    IN  s5

----------------------------------------------------------------------------
(* query_api(http_request_type, location, data=None) *)

GET == 1
POST == 2
PUT == 3
DELETE == 4

\* a member of the Enum HttpRequestType
HttpRequestType(n) == [t |-> "HttpRequestType", v |-> n]

\* _is_json(string)
is_json(string) == JsonLoads(string.v).ok

\* ValidateArgs without the _is_json test of data
ValidateArgs_NoJsonCheck(http_request_type, location, data) ==
    IF ~Truthy(http_request_type)
    THEN Raise("ValueError", "http_request_type")
    ELSE IF http_request_type.t # "HttpRequestType"
    THEN Raise("TypeError", "http_request_type")
    ELSE IF ~Truthy(location)
    THEN Raise("ValueError", "location")
    ELSE IF location.t # "str"
    THEN Raise("TypeError", "location")
    ELSE IF data # PyNone /\ data.t # "str"
    THEN Raise("TypeError", "data")
    ELSE Return(PyNone)

\* ValidateArgs with the check of location moved before that of the method
ValidateArgs_LocationFirst(http_request_type, location, data) ==
    IF ~Truthy(location)
    THEN Raise("ValueError", "location")
    ELSE IF location.t # "str"
    THEN Raise("TypeError", "location")
    ELSE IF ~Truthy(http_request_type)
    THEN Raise("ValueError", "http_request_type")
    ELSE IF http_request_type.t # "HttpRequestType"
    THEN Raise("TypeError", "http_request_type")
    ELSE IF data # PyNone /\ data.t # "str"
    THEN Raise("TypeError", "data")
    ELSE IF data # PyNone /\ ~is_json(data)
    THEN Raise("ValueError", "data")
    ELSE Return(PyNone)

\* The three argument checks that open query_api: the exception of the first
\* check that fails, Return(None) when all pass.
ValidateArgs(http_request_type, location, data) ==
    IF ~Truthy(http_request_type)
    THEN Raise("ValueError", "http_request_type")
    ELSE IF http_request_type.t # "HttpRequestType"
    THEN Raise("TypeError", "http_request_type")
    ELSE IF ~Truthy(location)
    THEN Raise("ValueError", "location")
    ELSE IF location.t # "str"
    THEN Raise("TypeError", "location")
    ELSE IF data # PyNone /\ data.t # "str"
    THEN Raise("TypeError", "data")
    ELSE IF data # PyNone /\ ~is_json(data)
    THEN Raise("ValueError", "data")
    ELSE Return(PyNone)

\* a + b on Python values
Add(a, b) ==
    IF a.t = "str" /\ b.t = "str"
    THEN Return(PyStr(a.v \o b.v))
    ELSE Raise("TypeError", "+")

\* self.api_url + location
UrlOf(obj, location) ==
    LET Joined(u) == IF u.kind = "raise" THEN u ELSE Add(u.value, location)
    IN  Joined(api_url_getter(obj))

\* The first exception among the outcomes of expressions evaluated in order,
\* Return(None) when none raised.
RECURSIVE FirstRaise(_)
FirstRaise(outs) ==
    IF outs = <<>> THEN Return(PyNone)
    ELSE IF Head(outs).kind = "raise" THEN Head(outs)
    ELSE FirstRaise(Tail(outs))

\* the debug message before the request: it reads enable_debug and, when
\* that is true, api_url + location
DebugBefore(obj, location) ==
    LET Log(d) ==
            IF d.kind = "raise" THEN d
            ELSE IF Truthy(d.value) THEN FirstRaise(<<UrlOf(obj, location)>>)
            ELSE Return(PyNone)
    IN  Log(enable_debug_getter(obj))

NoRequest == [method |-> 0, url |-> PyNone, data |-> PyNone, verify |-> PyNone,
              timeout |-> PyNone]

\* query_api up to the HTTP call: [out, request]. request is the call handed
\* to requests.get / post / put / delete, NoRequest when an exception came
\* first (out is then that exception).
query_api_call(obj, http_request_type, location, data) ==
    LET Before ==
            FirstRaise(<<
                DebugBefore(obj, location),
                GetAttr(obj, "api_username"),
                GetAttr(obj, "api_password"),
                IF http_request_type.v \in {GET, POST, PUT, DELETE}
                    THEN Return(PyNone) ELSE Raise("ValueError", "http_request_type"),
                UrlOf(obj, location),
                verify_ssl_getter(obj),
                api_timeout_getter(obj) >>)
        Request(url) ==
            [method |-> http_request_type.v, url |-> url.value, data |-> data,
             verify |-> obj._verify_ssl, timeout |-> obj._api_timeout]
        Dispatch(before) ==
            IF before.kind = "raise"
            THEN [out |-> before, request |-> NoRequest]
            ELSE [out |-> Return(PyNone), request |-> Request(UrlOf(obj, location))]
        Checked(checked) ==
            IF checked.kind = "raise"
            THEN [out |-> checked, request |-> NoRequest]
            ELSE Dispatch(Before)
    IN  Checked(ValidateArgs(http_request_type, location, data))

\* The classes of requests.exceptions an exception is an instance of.
Bases(exc) ==
    CASE exc = "HTTPError" -> {"HTTPError", "RequestException"}
      [] exc = "ConnectionError" -> {"ConnectionError", "RequestException"}
      [] exc = "ConnectTimeout" ->
            {"ConnectTimeout", "ConnectionError", "Timeout", "RequestException"}
      [] exc = "ReadTimeout" -> {"ReadTimeout", "Timeout", "RequestException"}
      [] exc = "Timeout" -> {"Timeout", "RequestException"}
      [] exc = "TooManyRedirects" -> {"TooManyRedirects", "RequestException"}
      [] exc = "requests.JSONDecodeError" ->
            {"requests.JSONDecodeError", "InvalidJSONError", "RequestException"}
      [] OTHER -> {exc}

\* the except clauses of query_api, in their order
Handlers == <<"HTTPError", "ConnectionError", "ReadTimeout", "Timeout", "RequestException">>

\* An exception raised inside the try block: re-raised as the class of the
\* first except clause that matches it, unchanged when none does.
Handle(out) ==
    LET Caught(hits) ==
            IF out.kind # "raise" \/ hits = {} THEN out
            ELSE [out EXCEPT !.exc = Handlers[CHOOSE k \in hits : \A j \in hits : k <= j]]
    IN  Caught({k \in 1..Len(Handlers) : Handlers[k] \in Bases(out.exc)})

\* response.json(): json_error is the class the installed requests raises
\* for a body that is not JSON
ResponseJson(response) ==
    LET Parsed(r) == IF r.ok THEN Return(r.val) ELSE Raise(response.json_error, "")
    IN  Parsed(JsonLoads(response.body))

\* response.raise_for_status(): an HTTPError for a 4xx or 5xx status
RaiseForStatus(response) ==
    IF 400 <= response.status /\ response.status < 600
    THEN RaiseStatus("HTTPError", response.status)
    ELSE Return(PyNone)

\* the body of the try block once the HTTP call has come back
TryBlock(obj, transport) ==
    IF transport.kind = "exception" THEN Raise(transport.exc, "")
    ELSE LET Traced(trace) ==
                 IF trace.kind = "raise" THEN trace
                 ELSE FirstRaise(<<
                        IF Truthy(trace.value) THEN ResponseJson(transport) ELSE Return(PyNone),
                        RaiseForStatus(transport) >>)
         IN  Traced(enable_http_trace_getter(obj))

\* query_api from the HTTP call's outcome on
query_api_response(obj, transport) ==
    LET Returned(after) == IF after.kind = "raise" THEN after ELSE ResponseJson(transport)
        After ==
            Returned(FirstRaise(<<
                enable_debug_getter(obj),
                IF RaiseForStatus(transport).kind = "raise"
                    THEN RaiseStatus("RuntimeError", transport.status) ELSE Return(PyNone) >>))
        Tried(tried) == IF tried.kind = "raise" THEN tried ELSE After
    IN  Tried(Handle(TryBlock(obj, transport)))

\* query_api against a transport that answers `transport`
query_api(obj, http_request_type, location, data, transport) ==
    LET Rest(c) ==
            IF c.request = NoRequest THEN c.out ELSE query_api_response(obj, transport)
    IN  Rest(query_api_call(obj, http_request_type, location, data))

----------------------------------------------------------------------------
(* The caller: one synchronous call at a time *)

NoArg == Absent

NoTransport == [kind |-> "none", status |-> 0, body |-> <<>>, json_error |-> "", exc |-> ""]
Response(status, body, json_error) ==
    [kind |-> "response", status |-> status, body |-> body,
     json_error |-> json_error, exc |-> ""]
Failure(exc) ==
    [kind |-> "exception", status |-> 0, body |-> <<>>, json_error |-> "", exc |-> exc]

NoCall ==
    [op |-> "", field |-> "", arg |-> NoArg, out |-> Return(PyNone),
     request |-> NoRequest, transport |-> NoTransport]

\* a call that ran to its end: res is [self, out]
Call(op, field, arg, res) ==
    /\ self' = res.self
    /\ pc' = "returned"
    /\ last' = [NoCall EXCEPT !.op = op, !.field = field, !.arg = arg, !.out = res.out]

\* client = NetatmoWeatherStation(kwargs), the start of every behaviour
Construct(kwargs) ==
    LET Built(res) ==
            /\ self = res.self
            /\ pc = IF res.out.kind = "raise" THEN "no_object" ELSE "returned"
            /\ last = [NoCall EXCEPT !.op = "__init__", !.arg = kwargs, !.out = res.out]
    IN  Built(init(kwargs))

\* client.<field>
Get(field) ==
    /\ pc = "idle"
    /\ Call("get", field, NoArg, [self |-> self, out |-> Getter(self, field)])

\* client.<field> = value
Set(field, value) ==
    /\ pc = "idle"
    /\ Call("set", field, value, Setter(self, field, value))

\* del client.<field>
Del(field) ==
    /\ pc = "idle"
    /\ Call("del", field, NoArg, Deleter(self, field))

\* client.<name> = value for a name the class declares no property for: a
\* plain instance attribute (query_api reads api_username and api_password)
SetAttr(name, value) ==
    /\ pc = "idle"
    /\ Call("setattr", name, value,
            [self |-> [self EXCEPT ![name] = value], out |-> Return(PyNone)])

\* client.query_api(http_request_type, location, data), up to the HTTP call
\* it blocks in, or to the exception raised before it
QueryCall(http_request_type, location, data) ==
    LET Called(c) ==
            /\ pc' = IF c.request = NoRequest THEN "returned" ELSE "in_request"
            /\ last' = [NoCall EXCEPT !.op = "query_api",
                                      !.arg = <<http_request_type, location, data>>,
                                      !.out = c.out,
                                      !.request = c.request]
    IN  /\ pc = "idle"
        /\ Called(query_api_call(self, http_request_type, location, data))
        /\ UNCHANGED self

\* the HTTP call comes back and query_api runs to its end
QueryRespond(transport) ==
    /\ pc = "in_request"
    /\ pc' = "returned"
    /\ last' = [last EXCEPT !.out = query_api_response(self, transport),
                            !.transport = transport]
    /\ UNCHANGED self

\* the caller takes what the call gave back and goes on
Resume ==
    /\ pc = "returned"
    /\ pc' = "idle"
    /\ last' = NoCall
    /\ UNCHANGED self

----------------------------------------------------------------------------
(* Spec: construction and the five properties *)

MaxTimeout == 1

Url1 == <<"a", ":", "/", "/", "a">>
NoHostUrl == <<"a", ":", "/", "/", ":">>
NoSchemeUrl == <<"/", "/", "a">>
Text1 == <<"1">>

Numbers == (0 - MaxTimeout)..MaxTimeout

SetValues(field) ==
    CASE field = "api_url" ->
            {PyNone, PyStr(<<>>), PyInt(1), PyStr(Url1), PyStr(NoHostUrl), PyStr(NoSchemeUrl)}
      [] field = "api_timeout" ->
            {PyNone, PyStr(Text1), PyBool(TRUE)}
                \cup {PyFloat(n) : n \in Numbers} \cup {PyInt(n) : n \in Numbers}
      [] field = "verify_ssl" ->
            {PyNone, PyBool(TRUE), PyBool(FALSE), PyInt(1), PyStr(Text1)}
      [] field = "enable_debug" ->
            {PyNone, PyStr(<<>>), PyStr(Text1), PyBool(TRUE)}
      [] field = "enable_http_trace" ->
            {PyNone, PyBool(TRUE), PyBool(FALSE), PyInt(1), PyStr(Text1)}

KwValues(key) ==
    CASE key = "api_url" -> {Absent, PyStr(Url1), PyStr(NoSchemeUrl)}
      [] key = "api_timeout" -> {Absent, PyFloat(1), PyFloat(0), PyStr(Url1)}
      [] key = "verify_ssl" -> {Absent, PyBool(TRUE), PyBool(FALSE)}
      [] key = "enable_http_trace" -> {Absent, PyBool(TRUE), PyBool(FALSE), PyNone}
      [] key = "enable_debug" -> {Absent, PyStr(Text1)}
      [] key = "_enable_http_debug" -> {Absent, PyStr(Text1), PyBool(TRUE)}

Kwargs == {kw \in [KwKeys -> UNION {KwValues(k) : k \in KwKeys}] :
              \A k \in KwKeys : kw[k] \in KwValues(k)}

Init == \E kwargs \in Kwargs : Construct(kwargs)

Next ==
    \/ \E field \in Fields : Get(field)
    \/ \E field \in Fields : \E value \in SetValues(field) : Set(field, value)
    \/ \E field \in Fields : Del(field)
    \/ Resume

Spec == Init /\ [][Next]_vars

----------------------------------------------------------------------------
(* SpecUrl: api_url under every short string *)

MaxUrlLen == 5

UrlChars == {"a", ":", "/", "["}

UrlTexts == UNION {[1..n -> UrlChars] : n \in 0..MaxUrlLen}

UrlInputs == {PyStr(s) : s \in UrlTexts} \cup {PyNone, PyInt(1)}

NoKwargs == [k \in KwKeys |-> Absent]

\* the two keywords __init__ hands to the api_url setter
UrlKwargs ==
    {[NoKwargs EXCEPT !["api_url"] = u, !["api_timeout"] = t] :
        u \in {Absent, PyStr(Url1), PyStr(NoSchemeUrl)},
        t \in {Absent, PyFloat(1), PyStr(Url1), PyStr(<<"a", ":", "a">>)}}

InitUrl == \E kwargs \in UrlKwargs : Construct(kwargs)

NextUrl ==
    \/ \E value \in UrlInputs : Set("api_url", value)
    \/ Get("api_url")
    \/ Del("api_url")
    \/ Resume

SpecUrl == InitUrl /\ [][NextUrl]_vars

----------------------------------------------------------------------------
(* SpecQuery: a configured client and query_api *)

MaxDataLen == 1

Path1 == <<"i", "/", "1">>
JsonBody1 == <<"{", "\"", "i", "\"", ":", "1", "}">>
HtmlBody == <<"<", "p", ">">>
User1 == <<"u">>

DataChars == {"{", "}", "1"}
DataTexts == UNION {[1..n -> DataChars] : n \in 0..MaxDataLen}

Methods == {PyNone, PyStr(<<"G", "E", "T">>), PyInt(0)}
                \cup {HttpRequestType(n) : n \in {GET, POST, PUT, DELETE}}
Locations == {PyNone, PyStr(<<>>), PyInt(1), PyStr(Path1)}
Datas == {PyNone, PyInt(1)} \cup {PyStr(s) : s \in DataTexts}

Bodies == {JsonBody1, HtmlBody, <<>>}
Statuses == {200, 304, 404, 500}
JsonErrors == {"json.JSONDecodeError", "requests.JSONDecodeError"}

Responses ==
    {Response(st, b, "") : st \in Statuses, b \in {x \in Bodies : JsonLoads(x).ok}}
        \cup {Response(st, b, e) : st \in Statuses,
                                   b \in {x \in Bodies : ~JsonLoads(x).ok},
                                   e \in JsonErrors}

Failures ==
    {Failure(e) : e \in {"ConnectionError", "ConnectTimeout", "ReadTimeout",
                         "Timeout", "TooManyRedirects"}}

Transports == Responses \cup Failures

QuerySetValues(field) ==
    CASE field = "api_url" -> {PyStr(Url1)}
      [] field = "api_timeout" -> {PyFloat(1)}
      [] field = "verify_ssl" -> {PyBool(TRUE)}
      [] field = "enable_debug" -> {PyStr(Text1)}
      [] field = "enable_http_trace" -> {PyBool(TRUE), PyBool(FALSE)}

QueryKwargs ==
    {[NoKwargs EXCEPT !["api_url"] = u] : u \in {Absent, PyStr(Url1)}}

InitQuery == \E kwargs \in QueryKwargs : Construct(kwargs)

NextQuery ==
    \/ \E field \in Fields : \E value \in QuerySetValues(field) : Set(field, value)
    \/ \E field \in Fields : Del(field)
    \/ \E name \in {"api_username", "api_password"} : SetAttr(name, PyStr(User1))
    \/ \E m \in Methods : \E l \in Locations : \E d \in Datas : QueryCall(m, l, d)
    \/ \E transport \in Transports : QueryRespond(transport)
    \/ Resume

SpecQuery == InitQuery /\ [][NextQuery]_vars

----------------------------------------------------------------------------
(* The claims *)

Members == {HttpRequestType(n) : n \in {GET, POST, PUT, DELETE}}

\* what the claims call an invalid method, path and body
MethodInvalid(m) == m = PyNone \/ m \notin Members
LocationInvalid(l) == l.t # "str" \/ l.v = <<>>
DataInvalid(d) == d # PyNone /\ (d.t # "str" \/ ~JsonLoads(d.v).ok)

ArgsValid(arg) ==
    ~MethodInvalid(arg[1]) /\ ~LocationInvalid(arg[2]) /\ ~DataInvalid(arg[3])

IsSet(value) == value # PyNone /\ value # Absent

\* api_url, api_timeout and verify_ssl hold values their setters stored
ClientConfigured ==
    IsSet(self._api_url) /\ IsSet(self._api_timeout) /\ IsSet(self._verify_ssl)

HasCredentials == self.api_username # Absent /\ self.api_password # Absent

\* C1: a query_api call whose method, path or body fails validation raises,
\* and no HTTP request has been issued by it: none is in flight and none came
\* back.
C1_NoRequestBeforeValidation ==
    (last.op = "query_api" /\ ~ArgsValid(last.arg))
        => /\ last.out.kind = "raise"
           /\ last.request = NoRequest
           /\ last.transport = NoTransport
           /\ pc # "in_request"

\* a client that would have sent the request rejects a body that is a string
\* but not JSON
C1_Witness ==
    /\ last.op = "query_api" /\ pc = "returned"
    /\ ClientConfigured /\ HasCredentials
    /\ ~MethodInvalid(last.arg[1]) /\ ~LocationInvalid(last.arg[2])
    /\ last.arg[3].t = "str" /\ DataInvalid(last.arg[3])
    /\ last.out.exc = "ValueError" /\ last.request = NoRequest

Is2xxJson(t) ==
    /\ t.kind = "response"
    /\ 200 <= t.status /\ t.status < 300
    /\ JsonLoads(t.body).ok

\* C2: on a client with api_url, api_timeout and verify_ssl set, query_api
\* with a valid method and a non-empty path, against a transport that answers
\* 2xx with a JSON body, returns that body parsed as JSON.
C2_ReturnsParsedBody ==
    (last.op = "query_api" /\ pc = "returned" /\ ClientConfigured /\ ArgsValid(last.arg))
        => \A t \in {x \in Transports : Is2xxJson(x)} :
              query_api(self, last.arg[1], last.arg[2], last.arg[3], t)
                  = Return(JsonLoads(t.body).val)

\* the error kind the claim gives a transport outcome ("" where it gives none)
ExpectedErrors(t) ==
    CASE t.kind = "response" /\ ~(200 <= t.status /\ t.status < 300) -> {"HTTPError"}
      [] t.kind = "exception" /\ t.exc = "ConnectionError" -> {"ConnectionError"}
      [] t.kind = "exception" /\ t.exc \in {"ReadTimeout", "Timeout"} ->
            {"ReadTimeout", "Timeout"}
      [] t.kind = "exception" /\ t.exc = "TooManyRedirects" -> {"RequestException"}
      [] OTHER -> {}

\* C3: on a configured client with validated arguments, a non-2xx response
\* raises HTTPError (its message holding the status), an unreachable host
\* ConnectionError, a timeout ReadTimeout or Timeout, any other transport
\* failure RequestException.
C3_TransportErrorKinds ==
    (last.op = "query_api" /\ pc = "returned" /\ ClientConfigured /\ ArgsValid(last.arg))
        => \A t \in {x \in Transports : ExpectedErrors(x) # {}} :
              LET AsExpected(out) ==
                      /\ out.kind = "raise"
                      /\ out.exc \in ExpectedErrors(t)
                      /\ (t.kind = "response" => out.status = t.status)
              IN  AsExpected(query_api(self, last.arg[1], last.arg[2], last.arg[3], t))

DebugStates == {PyNone, Absent, PyStr(Text1)}
TraceStates == {PyNone, Absent, PyBool(TRUE), PyBool(FALSE)}

SameOutcome(a, b) == a.kind = b.kind /\ a.exc = b.exc /\ a.value = b.value

\* C4: two clients that agree on everything but enable_debug and
\* enable_http_trace (set, never set, or cleared) get the same outcome of
\* query_api for the same arguments and the same transport answer.
C4_FlagsDoNotChangeOutcome ==
    (last.op = "query_api" /\ pc = "returned" /\ ClientConfigured)
        => \A dbg \in DebugStates : \A trc \in TraceStates : \A t \in Transports :
              SameOutcome(
                  query_api(self, last.arg[1], last.arg[2], last.arg[3], t),
                  query_api([self EXCEPT !._enable_http_debug = dbg,
                                         !._enable_http_trace = trc],
                            last.arg[1], last.arg[2], last.arg[3], t))

\* C5: the error of a query_api call is that of the first failing check in
\* the order method, path, body; the body is checked only when it is given.
C5_FirstFailingCheck ==
    last.op = "query_api" =>
        LET m == last.arg[1]
            l == last.arg[2]
            d == last.arg[3]
            validation == last.out.kind = "raise"
                              /\ last.out.exc \in {"ValueError", "TypeError"}
        IN  /\ MethodInvalid(m) =>
                validation /\ last.out.param = "http_request_type"
            /\ (~MethodInvalid(m) /\ LocationInvalid(l)) =>
                validation /\ last.out.param = "location"
            /\ (~MethodInvalid(m) /\ ~LocationInvalid(l) /\ DataInvalid(d)) =>
                validation /\ last.out.param = "data"
            /\ (~MethodInvalid(m) /\ ~LocationInvalid(l) /\ d = PyNone) =>
                last.out.param # "data"

\* all three arguments invalid at once: the method's error is the one raised
C5_Witness ==
    /\ last.op = "query_api" /\ pc = "returned"
    /\ MethodInvalid(last.arg[1]) /\ LocationInvalid(last.arg[2])
    /\ DataInvalid(last.arg[3])
    /\ last.out.param = "http_request_type"

HasSchemeAndNetloc(value) ==
    LET Both(parsed) == ~parsed.raised /\ parsed.scheme # <<>> /\ parsed.netloc # <<>>
    IN  value.t = "str" /\ Both(urlparse(value.v))

HasSchemeAndHost(value) ==
    LET Both(parsed) ==
            ~parsed.raised /\ parsed.scheme # <<>> /\ Hostname(parsed.netloc) # <<>>
    IN  value.t = "str" /\ Both(urlparse(value.v))

IsPositiveNumber(value) == value.t \in {"float", "int"} /\ value.v > 0

\* C7: the api_timeout setter fails for every value that is not a positive
\* number and stores every positive number, which the getter then returns;
\* the stored api_timeout is unset or strictly positive.
C7_TimeoutPositive ==
    /\ ~IsSet(self._api_timeout) \/ IsPositiveNumber(self._api_timeout)
    /\ (last.op = "set" /\ last.field = "api_timeout") =>
          IF IsPositiveNumber(last.arg)
          THEN last.out.kind = "return" /\ api_timeout_getter(self) = Return(last.arg)
          ELSE last.out.kind = "raise"

\* C8: on a client constructed without enable_http_trace the getter returns
\* False, and the setter called with None stores False without failing.
C8_TraceDefaultsFalse ==
    /\ (last.op = "__init__" /\ last.out.kind = "return"
            /\ last.arg["enable_http_trace"] = Absent)
          => enable_http_trace_getter(self) = Return(PyBool(FALSE))
    /\ (last.op = "set" /\ last.field = "enable_http_trace" /\ last.arg = PyNone)
          => last.out.kind = "return" /\ self._enable_http_trace = PyBool(FALSE)

\* the attribute behind a property
AttrOf(field) ==
    CASE field = "api_url" -> "_api_url"
      [] field = "api_timeout" -> "_api_timeout"
      [] field = "verify_ssl" -> "_verify_ssl"
      [] field = "enable_debug" -> "_enable_http_debug"
      [] field = "enable_http_trace" -> "_enable_http_trace"

\* C9: a clear of a field that had been set leaves the field as it is on a
\* fresh client that never set it (the getter gives the same outcome), and a
\* valid set succeeds afterwards.
C9_ClearGivesFreshState ==
    [][\A field \in Fields :
          (/\ pc = "idle"
           /\ IsSet(self[AttrOf(field)])
           /\ last'.op = "del" /\ last'.field = field /\ last'.out.kind = "return")
          => /\ Getter(self', field) = Getter(Blank, field)
             /\ \E value \in SetValues(field) :
                    Setter(self', field, value).out.kind = "return"]_vars

\* C10: construction with keyword arguments that are each valid for the
\* setter of their field succeeds, every field named holds the value passed
\* and every field not named stays unset.
C10_InitPopulatesFields ==
    (/\ last.op = "__init__"
     /\ last.arg["_enable_http_debug"] = Absent
     /\ \A field \in Fields :
            \/ last.arg[field] = Absent
            \/ Setter(Blank, field, last.arg[field]).out.kind = "return")
        => /\ last.out.kind = "return"
           /\ \A field \in Fields :
                 Getter(self, field) =
                     Return(IF last.arg[field] = Absent THEN PyNone ELSE last.arg[field])

====
